---- MODULE Spec2Model ----
(***************************************************************************)
(* Model of the NeuraX chat server (src/NeuraX.py): the in-memory session  *)
(* store chat_sessions, the session counter, and the five JSON endpoints   *)
(* handle_chat, get_sessions, load_session_route, rename_session_route and *)
(* delete_session_route.  A request is handled start to finish in one      *)
(* step; request and response hold the request handled last and its        *)
(* answer, calls the upstream calls made while handling it.                *)
(*                                                                         *)
(* Text is a sequence of one-character strings; None is Python's None (a   *)
(* missing or null JSON field as returned by request.json.get).  Path      *)
(* parameters are the ids the route converter hands to the handler.        *)
(* count_tokens is a library call on the user message; the tokens field of *)
(* the chat response is left out.                                          *)
(*                                                                         *)
(* client is the state of the page script (currentSessionId,               *)
(* sessionHistory and the session list it last rendered); threads holds    *)
(* the position and the local variables of two chat requests that are      *)
(* handled statement by statement at the same time.  Both stay at their    *)
(* initial value in the specifications that do not use them.               *)
(***************************************************************************)
EXTENDS Integers, Sequences, FiniteSets, TLC

VARIABLES chat_sessions, session_counter, api_key, request, response, calls,
          client, threads

vars == <<chat_sessions, session_counter, api_key, request, response, calls,
          client, threads>>

(* ---------------------------- bounds ----------------------------------- *)

MaxSessions == 2

MaxCounter == 2

MaxHist == 1
(* The longest proposed name that is sanitized on its own.                 *)
MaxLen == 3
(* The number of turns the page script sends in one conversation.          *)
MaxTurns == 2

(* ---------------------------- text ------------------------------------- *)

None == <<"None">>

(* Mutation: only a missing value counts as falsy ("is None").             *)
Falsy_NoneOnly(x) == x = None

Falsy(x) == x = None \/ x = <<>>

LowerSeq ==
  <<"a","b","c","d","e","f","g","h","i","j","k","l","m",
    "n","o","p","q","r","s","t","u","v","w","x","y","z">>

UpperSeq ==
  <<"A","B","C","D","E","F","G","H","I","J","K","L","M",
    "N","O","P","Q","R","S","T","U","V","W","X","Y","Z">>

LowerLetters == {LowerSeq[i] : i \in 1..26}

UpperLetters == {UpperSeq[i] : i \in 1..26}

Digits == {"0","1","2","3","4","5","6","7","8","9"}

Whitespace == {" "}

isalpha(c) == c \in LowerLetters \cup UpperLetters

isdigit(c) == c \in Digits

ToLower == [c \in UpperLetters |-> LowerSeq[CHOOSE i \in 1..26 : UpperSeq[i] = c]]

lowerChar(c) == IF c \in UpperLetters THEN ToLower[c] ELSE c

lower(s) == [i \in 1..Len(s) |-> lowerChar(s[i])]

DigitChar(d) ==
  CASE d = 0 -> "0" [] d = 1 -> "1" [] d = 2 -> "2" [] d = 3 -> "3"
    [] d = 4 -> "4" [] d = 5 -> "5" [] d = 6 -> "6" [] d = 7 -> "7"
    [] d = 8 -> "8" [] d = 9 -> "9"

RECURSIVE str(_)
str(n) == IF n < 10 THEN <<DigitChar(n)>>
          ELSE str(n \div 10) \o <<DigitChar(n % 10)>>

RECURSIVE split(_)
split(s) ==
  IF s = <<>> THEN <<>>
  ELSE IF Head(s) \in Whitespace THEN split(Tail(s))
  ELSE LET rest == split(Tail(s))
       IN IF Len(s) > 1 /\ s[2] \notin Whitespace
          THEN <<(<<Head(s)>> \o Head(rest))>> \o Tail(rest)
          ELSE <<(<<Head(s)>>)>> \o rest

RECURSIVE join(_, _)
join(sep, words) ==
  IF words = <<>> THEN <<>>
  ELSE IF Len(words) = 1 THEN Head(words)
  ELSE Head(words) \o sep \o join(sep, Tail(words))

RECURSIVE lstrip(_, _)
lstrip(s, c) == IF s # <<>> /\ Head(s) = c THEN lstrip(Tail(s), c) ELSE s

RECURSIVE rstrip(_, _)
rstrip(s, c) ==
  IF s # <<>> /\ s[Len(s)] = c THEN rstrip(SubSeq(s, 1, Len(s) - 1), c) ELSE s

strip(s, c) == rstrip(lstrip(s, c), c)

IsTitleChar(x) == isalpha(x) \/ x = "-"

IsRenameChar(x) == isalpha(x) \/ isdigit(x) \/ x = "-"

SanitizeTitle(title_response) ==
  strip(SelectSeq(join(<<"-">>, split(lower(title_response))), IsTitleChar), "-")

(* Mutation: the hyphens are trimmed before the filter, not after it.      *)
SanitizeRename_StripFirst(new_name) ==
  SelectSeq(strip(join(<<"-">>, split(lower(new_name))), "-"), IsRenameChar)

SanitizeRename(new_name) ==
  strip(SelectSeq(join(<<"-">>, split(lower(new_name))), IsRenameChar), "-")

NewChat == <<"n","e","w","-","c","h","a","t">>

SessionN(n) == <<"s","e","s","s","i","o","n","_">> \o str(n)

(* ---------------------------- the dict --------------------------------- *)
(* chat_sessions is an insertion-ordered mapping: a sequence of entries    *)
(* [key, value] with pairwise distinct keys.                               *)

Keys(d) == {d[i].key : i \in 1..Len(d)}

KeyList(d) == [i \in 1..Len(d) |-> d[i].key]

Has(d, k) == k \in Keys(d)

IndexOf(d, k) == CHOOSE i \in 1..Len(d) : d[i].key = k

DictGet(d, k) == IF Has(d, k) THEN d[IndexOf(d, k)].value ELSE None

(* Mutation: an existing key keeps its value (setdefault).                 *)
SetItem_KeepExisting(d, k, v) ==
  IF Has(d, k) THEN d ELSE Append(d, [key |-> k, value |-> v])

SetItem(d, k, v) ==
  IF Has(d, k)
  THEN [i \in 1..Len(d) |-> IF d[i].key = k THEN [key |-> k, value |-> v] ELSE d[i]]
  ELSE Append(d, [key |-> k, value |-> v])

(* Mutation: the entry is not removed.                                     *)
DelItem_Noop(d, k) == d

DelItem(d, k) == SelectSeq(d, LAMBDA e : e.key # k)

Pop(d, k) == [value |-> DictGet(d, k), dict |-> DelItem(d, k)]

(* ---------------------------- messages --------------------------------- *)

Msg(role, content) == [role |-> role, content |-> content]

PersonaText == <<"p">>

NoKeyText == <<"k">>

ErrorText == <<"e">>

custom_system_instruction == Msg("system", PersonaText)

Raise == <<"Exception">>

(* Outcomes of client.chat.completions.create: an exception or the text.   *)
CompletionOutcomes == {Raise, <<"r">>}

(* Title texts the model returns: "New Chat 1!" and "1".                   *)
TitleResponses == {<<"N","e","w"," ","C","h","a","t"," ","1","!">>, <<"1">>}

TitleOutcomes == {Raise} \cup TitleResponses

(* The sanitized form of each title text, computed once.                   *)
TitleSlug == [title_response \in TitleResponses |-> SanitizeTitle(title_response)]

(* ---------------------------- chat ------------------------------------- *)

(* Mutation: a failed completion call is made a second time.               *)
chat_with_ai_Retry(messages, outcome) ==
  LET messages_with_persona == <<custom_system_instruction>> \o messages
  IN IF ~api_key
     THEN [reply |-> NoKeyText, completion |-> 0, sent |-> <<>>]
     ELSE [reply |-> IF outcome = Raise THEN ErrorText ELSE outcome,
           completion |-> IF outcome = Raise THEN 2 ELSE 1,
           sent |-> messages_with_persona]

chat_with_ai(messages, outcome) ==
  LET messages_with_persona == <<custom_system_instruction>> \o messages
  IN IF ~api_key
     THEN [reply |-> NoKeyText, completion |-> 0, sent |-> <<>>]
     ELSE [reply |-> IF outcome = Raise THEN ErrorText ELSE outcome,
           completion |-> 1, sent |-> messages_with_persona]

(* Mutation: the user message is not appended to the history.              *)
Messages_WithoutUser(history, user_message) == history

Messages(history, user_message) == history \o <<Msg("user", user_message)>>

(* Mutation: the list sent upstream, persona included, is the one kept.    *)
UpdatedHistory_WithPersona(history, user_message, ai_response) ==
  <<custom_system_instruction>> \o Messages(history, user_message)
    \o <<Msg("assistant", ai_response)>>

UpdatedHistory(history, user_message, ai_response) ==
  Messages(history, user_message) \o <<Msg("assistant", ai_response)>>

(* Mutation: only a missing id makes a session new, not an unknown one.    *)
IsNewSession_MissingOnly(current_session_id, d) == Falsy(current_session_id)

IsNewSession(current_session_id, d) ==
  Falsy(current_session_id) \/ ~Has(d, current_session_id)

(* Mutation: "if" for "while", the suffixed name is not checked again.     *)
TitleLoop_SingleProbe(unique_name, base_name, counter, d) ==
  IF Has(d, unique_name) THEN base_name \o <<"-">> \o str(counter) ELSE unique_name

RECURSIVE TitleLoop(_, _, _, _)
TitleLoop(unique_name, base_name, counter, d) ==
  IF Has(d, unique_name)
  THEN TitleLoop(base_name \o <<"-">> \o str(counter), base_name, counter + 1, d)
  ELSE unique_name

(* Mutation: an empty sanitized title is used as it is.                    *)
UniqueTitleName_NoPlaceholder(title_response, d) ==
  TitleLoop(TitleSlug[title_response], TitleSlug[title_response], 1, d)

UniqueTitleName(title_response, d) ==
  LET sanitized == TitleSlug[title_response]
      base_name == IF sanitized = <<>> THEN NewChat ELSE sanitized
  IN TitleLoop(base_name, base_name, 1, d)

(* Mutation: the fallback id is built before the counter is incremented.   *)
ResolveSessionId_StaleCounter(current_session_id, updated_history, title, d, counter) ==
  LET is_new_session == IsNewSession(current_session_id, d)
  IN IF is_new_session /\ Len(updated_history) = 2
     THEN IF api_key
          THEN IF title = Raise
               THEN [id |-> SessionN(counter), counter |-> counter + 1, title |-> 1]
               ELSE [id |-> UniqueTitleName(title, d), counter |-> counter, title |-> 1]
          ELSE [id |-> SessionN(counter), counter |-> counter + 1, title |-> 0]
     ELSE IF Falsy(current_session_id)
          THEN [id |-> SessionN(counter), counter |-> counter + 1, title |-> 0]
          ELSE [id |-> current_session_id, counter |-> counter, title |-> 0]

(* Lines 95-139: the resolved session id, the new counter and the number   *)
(* of title calls made.                                                    *)
ResolveSessionId(current_session_id, updated_history, title, d, counter) ==
  LET is_new_session == IsNewSession(current_session_id, d)
  IN IF is_new_session /\ Len(updated_history) = 2
     THEN IF api_key
          THEN IF title = Raise
               THEN [id |-> SessionN(counter + 1), counter |-> counter + 1, title |-> 1]
               ELSE [id |-> UniqueTitleName(title, d), counter |-> counter, title |-> 1]
          ELSE [id |-> SessionN(counter + 1), counter |-> counter + 1, title |-> 0]
     ELSE IF Falsy(current_session_id)
          THEN [id |-> SessionN(counter + 1), counter |-> counter + 1, title |-> 0]
          ELSE [id |-> current_session_id, counter |-> counter, title |-> 0]

NoCalls == [completion |-> 0, title |-> 0, sent |-> <<>>,
            raised |-> FALSE, title_response |-> None]

Conversation(n) ==
  LET cycle == <<custom_system_instruction, Msg("user", <<"h">>),
                 Msg("assistant", <<"r">>)>>
  IN [i \in 1..n |-> cycle[((i - 1) % 3) + 1]]

(* Histories a client sends: none, or a conversation of MaxHist messages   *)
(* (the list as it went upstream, persona first).                          *)
Histories == {<<>>, Conversation(MaxHist)}

UserMessages == {None, <<>>, <<"h">>}

(* Session ids a client may send that the server never issued.            *)
ClientIds == {SessionN(1), <<"Z", "!">>}

ChatSessionIds == {None} \cup Keys(chat_sessions) \cup ClientIds

PathIds == Keys(chat_sessions) \cup {NewChat}

NewNames == {None, <<"!">>, <<"N","e","w"," ","C","h","a","t">>}

(* The sanitized form of each proposed name, computed once.                *)
RenameSlug == [new_name \in NewNames \ {None} |-> SanitizeRename(new_name)]

ChatResult(user_message, history, current_session_id, completion, title) ==
  LET ai == chat_with_ai(Messages(history, user_message), completion)
      updated_history == UpdatedHistory(history, user_message, ai.reply)
      r == ResolveSessionId(current_session_id, updated_history, title,
                            chat_sessions, session_counter)
  IN [counter |-> r.counter,
      dict |-> SetItem(chat_sessions, r.id, updated_history),
      calls |-> [completion |-> ai.completion, title |-> r.title, sent |-> ai.sent,
                 raised |-> (ai.completion > 0 /\ completion = Raise),
                 title_response |-> IF r.title > 0 THEN title ELSE None],
      response |-> [route |-> "chat", status |-> 200, response |-> ai.reply,
                    sessionId |-> r.id, fullHistory |-> updated_history]]

handle_chat(user_message, history, current_session_id) ==
  /\ request' = [route |-> "chat", message |-> user_message, history |-> history,
                 sessionId |-> current_session_id]
  /\ UNCHANGED api_key
  /\ IF Falsy(user_message)
     THEN /\ response' = [route |-> "chat", status |-> 400,
                          error |-> "No message provided"]
          /\ calls' = NoCalls
          /\ UNCHANGED <<chat_sessions, session_counter>>
     ELSE \E completion \in (IF api_key THEN CompletionOutcomes ELSE {Raise}) :
          \E title \in (IF /\ api_key
                           /\ history = <<>>
                           /\ IsNewSession(current_session_id, chat_sessions)
                        THEN TitleOutcomes ELSE {Raise}) :
            \E res \in {ChatResult(user_message, history, current_session_id,
                                   completion, title)} :
               /\ res.counter <= MaxCounter
               /\ Len(res.dict) <= MaxSessions
               /\ session_counter' = res.counter
               /\ chat_sessions' = res.dict
               /\ calls' = res.calls
               /\ response' = res.response

get_sessions ==
  /\ request' = [route |-> "get_sessions"]
  /\ response' = [route |-> "get_sessions", status |-> 200, sessions |-> KeyList(chat_sessions)]
  /\ calls' = NoCalls
  /\ UNCHANGED <<chat_sessions, session_counter, api_key>>

(* Mutation: no not-found branch, a missing key loads as an empty history. *)
load_session_route_NoCheck(session_id) ==
  /\ request' = [route |-> "load_session", session_id |-> session_id]
  /\ response' = [route |-> "load_session", status |-> 200,
                  history |-> IF Has(chat_sessions, session_id)
                              THEN DictGet(chat_sessions, session_id) ELSE <<>>]
  /\ calls' = NoCalls
  /\ UNCHANGED <<chat_sessions, session_counter, api_key>>

load_session_route(session_id) ==
  LET history == DictGet(chat_sessions, session_id)
  IN /\ request' = [route |-> "load_session", session_id |-> session_id]
     /\ response' = IF ~Falsy(history)
                    THEN [route |-> "load_session", status |-> 200, history |-> history]
                    ELSE [route |-> "load_session", status |-> 404,
                          error |-> "Session not found"]
     /\ calls' = NoCalls
     /\ UNCHANGED <<chat_sessions, session_counter, api_key>>

(* Mutation: the loop does not exempt the session's own id.                *)
RECURSIVE RenameLoop_NoSelfCheck(_, _, _, _, _)
RenameLoop_NoSelfCheck(unique_name, sanitized_name, counter, old_session_id, d) ==
  IF Has(d, unique_name)
  THEN RenameLoop_NoSelfCheck(sanitized_name \o <<"-">> \o str(counter),
                              sanitized_name, counter + 1, old_session_id, d)
  ELSE unique_name

RECURSIVE RenameLoop(_, _, _, _, _)
RenameLoop(unique_name, sanitized_name, counter, old_session_id, d) ==
  IF Has(d, unique_name) /\ unique_name # old_session_id
  THEN RenameLoop(sanitized_name \o <<"-">> \o str(counter), sanitized_name,
                  counter + 1, old_session_id, d)
  ELSE unique_name

(* Mutation: the suffix counter starts at 2, the suffix -1 is never tried.  *)
UniqueRenameName_CounterFromTwo(sanitized_name, old_session_id, d) ==
  RenameLoop(sanitized_name, sanitized_name, 2, old_session_id, d)

UniqueRenameName(sanitized_name, old_session_id, d) ==
  RenameLoop(sanitized_name, sanitized_name, 1, old_session_id, d)

(* Mutation: the history is copied to the new key, the old key stays.      *)
MoveItem_Copy(d, old_session_id, unique_name) ==
  SetItem(d, unique_name, DictGet(d, old_session_id))

MoveItem(d, old_session_id, unique_name) ==
  LET popped == Pop(d, old_session_id)
  IN SetItem(popped.dict, unique_name, popped.value)

rename_session_route(old_session_id, new_name) ==
  /\ request' = [route |-> "rename_session", old_session_id |-> old_session_id,
                 new_name |-> new_name]
  /\ calls' = NoCalls
  /\ UNCHANGED <<session_counter, api_key>>
  /\ IF Falsy(new_name)
     THEN /\ response' = [route |-> "rename_session", status |-> 400,
                             error |-> "New name required"]
          /\ UNCHANGED chat_sessions
     ELSE LET sanitized_name == RenameSlug[new_name]
              unique_name == UniqueRenameName(sanitized_name, old_session_id, chat_sessions)
          IN IF sanitized_name = <<>>
             THEN /\ response' = [route |-> "rename_session", status |-> 400,
                                  error |-> "Invalid new name after sanitization"]
                  /\ UNCHANGED chat_sessions
             ELSE IF unique_name = old_session_id
             THEN /\ response' = [route |-> "rename_session", status |-> 200,
                                  new_session_id |-> old_session_id]
                  /\ UNCHANGED chat_sessions
             ELSE IF Has(chat_sessions, old_session_id)
             THEN /\ chat_sessions' = MoveItem(chat_sessions, old_session_id, unique_name)
                  /\ response' = [route |-> "rename_session", status |-> 200,
                                  new_session_id |-> unique_name]
             ELSE /\ response' = [route |-> "rename_session", status |-> 404,
                                  error |-> "Session not found"]
                  /\ UNCHANGED chat_sessions

(* Mutation: deleting a session gives its counter value back.              *)
delete_session_route_ReleasesCounter(session_id) ==
  /\ request' = [route |-> "delete_session", session_id |-> session_id]
  /\ calls' = NoCalls
  /\ UNCHANGED api_key
  /\ IF Has(chat_sessions, session_id)
     THEN /\ chat_sessions' = DelItem(chat_sessions, session_id)
          /\ session_counter' = IF session_counter > 0 THEN session_counter - 1 ELSE 0
          /\ response' = [route |-> "delete_session", status |-> 200]
     ELSE /\ response' = [route |-> "delete_session", status |-> 404,
                          error |-> "Session not found"]
          /\ UNCHANGED <<chat_sessions, session_counter>>

delete_session_route(session_id) ==
  /\ request' = [route |-> "delete_session", session_id |-> session_id]
  /\ calls' = NoCalls
  /\ UNCHANGED <<session_counter, api_key>>
  /\ IF Has(chat_sessions, session_id)
     THEN /\ chat_sessions' = DelItem(chat_sessions, session_id)
          /\ response' = [route |-> "delete_session", status |-> 200]
     ELSE /\ response' = [route |-> "delete_session", status |-> 404,
                          error |-> "Session not found"]
          /\ UNCHANGED chat_sessions

(* ---------------------------- specification ---------------------------- *)

(* Lines 731-732 and 1148: the page script after its first list fetch.     *)
PageLoaded ==
  [currentSessionId |-> None, sessionHistory |-> <<>>, sessions |-> <<>>,
   action |-> "page"]

Threads == {1, 2}

(* No request is being handled yet.                                        *)
Idle == [pc |-> "idle"]

Init ==
  /\ chat_sessions = <<>>
  /\ session_counter = 0
  /\ api_key \in BOOLEAN
  /\ request = [route |-> "none"]
  /\ response = [route |-> "none", status |-> 0]
  /\ calls = NoCalls
  /\ client = PageLoaded
  /\ threads = [t \in Threads |-> Idle]

Chat ==
  \E user_message \in UserMessages :
    \E history \in (IF user_message \in {None, <<>>} THEN {<<>>} ELSE Histories),
       current_session_id \in (IF user_message \in {None, <<>>} THEN {None}
                               ELSE ChatSessionIds) :
         /\ handle_chat(user_message, history, current_session_id)
         /\ UNCHANGED <<client, threads>>

List == get_sessions /\ UNCHANGED <<client, threads>>

Load ==
  \E session_id \in PathIds :
       load_session_route(session_id) /\ UNCHANGED <<client, threads>>

Rename ==
  \E old_session_id \in PathIds, new_name \in NewNames :
       rename_session_route(old_session_id, new_name) /\ UNCHANGED <<client, threads>>

Delete ==
  \E session_id \in PathIds :
       delete_session_route(session_id) /\ UNCHANGED <<client, threads>>

Next == Chat \/ List \/ Load \/ Rename \/ Delete

Spec == Init /\ [][Next]_vars

(* ---------------------------- naming ---------------------------------- *)

(* The naming statements on their own: the sanitization of lines 115-116  *)
(* and 173-174 and the uniqueness loops of lines 120-125 and 179-184.  A   *)
(* proposed name (a title text or a new_name) is drawn from the texts of   *)
(* at most MaxLen characters over a letter of each case, a digit, the      *)
(* hyphen, a blank and a punctuation mark.  The store is any selection of  *)
(* the keys session_1, new-chat, new-chat-1, ..., so that the names a      *)
(* loop probes are taken or free in every combination.  request holds the  *)
(* input from the start, response what the statements make of it.          *)
NameChars == {"a", "A", "1", "-", " ", "!"}

Texts == UNION {[1..n -> NameChars] : n \in 0..MaxLen}

NamingKeys ==
  [k \in 1..(MaxSessions + 2) |->
     IF k = 1 THEN SessionN(1)
     ELSE IF k = 2 THEN NewChat ELSE NewChat \o <<"-">> \o str(k - 2)]

NamingStores ==
  {LET Selected(k) == k \in K
       keys == SelectSeq([k \in 1..(MaxSessions + 2) |-> k], Selected)
   IN [i \in 1..Len(keys) |->
         [key |-> NamingKeys[keys[i]],
          value |-> UpdatedHistory(<<>>, <<"h">>, <<"r">>)]]
   : K \in SUBSET (1..(MaxSessions + 2))}

NamingRequests ==
  {[route |-> "sanitize", text |-> text] : text \in Texts}
    \cup {[route |-> "unique_title", title_response |-> title_response] :
            title_response \in TitleResponses}
    \cup {[route |-> "unique_rename", old_session_id |-> old_session_id,
           new_name |-> new_name] :
            old_session_id \in PathIds, new_name \in NewNames \ {None}}

NamingInit ==
  /\ chat_sessions \in NamingStores
  /\ session_counter = 0
  /\ api_key \in BOOLEAN
  /\ request \in NamingRequests
  /\ response = [route |-> "none", status |-> 0]
  /\ calls = NoCalls
  /\ client = PageLoaded
  /\ threads = [t \in Threads |-> Idle]

Sanitize(text) ==
  /\ response.route = "none"
  /\ request = [route |-> "sanitize", text |-> text]
  /\ response' = [route |-> "sanitize", status |-> 0,
                  base_name |-> SanitizeTitle(text),
                  sanitized_name |-> SanitizeRename(text)]
  /\ UNCHANGED <<chat_sessions, session_counter, api_key, request, calls,
               client, threads>>

(* Lines 115-125 for a title text the title call returned.                 *)
UniqueTitle(title_response) ==
  /\ response.route = "none"
  /\ request = [route |-> "unique_title", title_response |-> title_response]
  /\ response' = [route |-> "unique_title", status |-> 0,
                  unique_name |-> UniqueTitleName(title_response, chat_sessions)]
  /\ UNCHANGED <<chat_sessions, session_counter, api_key, request, calls,
               client, threads>>

(* Lines 173-184 for a new name that does not sanitize to the empty text.  *)
UniqueRename(old_session_id, new_name) ==
  /\ response.route = "none"
  /\ request = [route |-> "unique_rename", old_session_id |-> old_session_id,
                new_name |-> new_name]
  /\ RenameSlug[new_name] # <<>>
  /\ response' = [route |-> "unique_rename", status |-> 0,
                  sanitized_name |-> RenameSlug[new_name],
                  unique_name |-> UniqueRenameName(RenameSlug[new_name],
                                                   old_session_id, chat_sessions)]
  /\ UNCHANGED <<chat_sessions, session_counter, api_key, request, calls,
               client, threads>>

NamingNext ==
  \/ \E text \in Texts : Sanitize(text)
  \/ \E title_response \in TitleResponses : UniqueTitle(title_response)
  \/ \E old_session_id \in PathIds, new_name \in NewNames \ {None} :
        UniqueRename(old_session_id, new_name)

NamingSpec == NamingInit /\ [][NamingNext]_vars

(* ---------------------------- concurrency ------------------------------ *)

(* Two first-turn chat requests without a sessionId (lines 74-148), each   *)
(* on its own thread of the development server, taken statement by         *)
(* statement: the reply and the extended history (76-93), the title call   *)
(* (107-112), each test of the uniqueness loop (122-125), the read and the *)
(* write of session_counter += 1 (127, 133), the formatting of the         *)
(* fallback id from the counter (128, 134) and the store write (141).      *)
(* threads[t] holds the position and the local variables of thread t.      *)
ThreadMessage == [t \in Threads |-> IF t = 1 THEN <<"h">> ELSE <<"g">>]

ReceiveChat(t) ==
  /\ threads[t].pc = "idle"
  /\ \E completion \in (IF api_key THEN CompletionOutcomes ELSE {Raise}) :
       LET user_message == ThreadMessage[t]
           ai == chat_with_ai(Messages(<<>>, user_message), completion)
           updated_history == UpdatedHistory(<<>>, user_message, ai.reply)
       IN threads' = [threads EXCEPT ![t] =
            [pc |-> IF api_key THEN "title_call" ELSE "counter_read",
             updated_history |-> updated_history,
             current_session_id |-> None]]
  /\ UNCHANGED <<chat_sessions, session_counter, api_key, request, response, calls,
                 client>>

RequestTitle(t) ==
  /\ threads[t].pc = "title_call"
  /\ \E title_response \in TitleOutcomes :
       IF title_response = Raise
       THEN threads' = [threads EXCEPT ![t].pc = "counter_read"]
       ELSE LET sanitized == TitleSlug[title_response]
                base_name == IF sanitized = <<>> THEN NewChat ELSE sanitized
            IN threads' = [threads EXCEPT ![t] =
                 [pc |-> "probe",
                  updated_history |-> threads[t].updated_history,
                  current_session_id |-> None,
                  base_name |-> base_name,
                  unique_name |-> base_name,
                  counter |-> 1]]
  /\ UNCHANGED <<chat_sessions, session_counter, api_key, request, response, calls,
                 client>>

ProbeName(t) ==
  /\ threads[t].pc = "probe"
  /\ IF Has(chat_sessions, threads[t].unique_name)
     THEN threads' = [threads EXCEPT
            ![t].unique_name = threads[t].base_name \o <<"-">> \o str(threads[t].counter),
            ![t].counter = threads[t].counter + 1]
     ELSE threads' = [threads EXCEPT
            ![t].current_session_id = threads[t].unique_name,
            ![t].pc = "store"]
  /\ UNCHANGED <<chat_sessions, session_counter, api_key, request, response, calls,
                 client>>

ReadCounter(t) ==
  /\ threads[t].pc = "counter_read"
  /\ threads' = [threads EXCEPT ![t] =
       [pc |-> "counter_write",
        updated_history |-> threads[t].updated_history,
        current_session_id |-> None,
        loaded |-> session_counter]]
  /\ UNCHANGED <<chat_sessions, session_counter, api_key, request, response, calls,
                 client>>

WriteCounter(t) ==
  /\ threads[t].pc = "counter_write"
  /\ session_counter' = threads[t].loaded + 1
  /\ threads' = [threads EXCEPT ![t].pc = "format"]
  /\ UNCHANGED <<chat_sessions, api_key, request, response, calls, client>>

FormatFallback(t) ==
  /\ threads[t].pc = "format"
  /\ threads' = [threads EXCEPT
       ![t].current_session_id = SessionN(session_counter),
       ![t].pc = "store"]
  /\ UNCHANGED <<chat_sessions, session_counter, api_key, request, response, calls,
                 client>>

StoreHistory(t) ==
  /\ threads[t].pc = "store"
  /\ chat_sessions' = SetItem(chat_sessions, threads[t].current_session_id,
                              threads[t].updated_history)
  /\ threads' = [threads EXCEPT ![t].pc = "done"]
  /\ UNCHANGED <<session_counter, api_key, request, response, calls, client>>

ConcurrentNext ==
  \E t \in Threads :
    \/ ReceiveChat(t)
    \/ RequestTitle(t)
    \/ ProbeName(t)
    \/ ReadCounter(t)
    \/ WriteCounter(t)
    \/ FormatFallback(t)
    \/ StoreHistory(t)

ConcurrentSpec == Init /\ [][ConcurrentNext]_vars

(* ---------------------------- page script ------------------------------ *)

(* One browser page (lines 731-1148) against the server: every action of   *)
(* the page runs to its end, the request it sends and the list refresh it  *)
(* triggers included, before the next one starts.  client.action names the *)
(* action run last.                                                        *)
reverse(a) == [i \in 1..Len(a) |-> a[Len(a) + 1 - i]]

(* Lines 1044-1078: the session ids rendered from GET /api/get_sessions.   *)
fetchAndRenderSessions(d) == reverse(KeyList(d))

RenderedIds == {client.sessions[i] : i \in 1..Len(client.sessions)}

sendMessage(message) ==
  /\ handle_chat(message, client.sessionHistory, client.currentSessionId)
  /\ client' = IF response'.status = 200
               THEN [currentSessionId |-> response'.sessionId,
                     sessionHistory |-> response'.fullHistory,
                     sessions |-> fetchAndRenderSessions(chat_sessions'),
                     action |-> "send"]
               ELSE [client EXCEPT !.action = "send"]
  /\ UNCHANGED threads

loadSession(sessionId) ==
  /\ load_session_route(sessionId)
  /\ client' = IF response'.status = 200
               THEN [client EXCEPT !.sessionHistory = response'.history,
                                   !.currentSessionId = sessionId,
                                   !.action = "load"]
               ELSE [client EXCEPT !.action = "load"]
  /\ UNCHANGED threads

finalizeRename(oldSessionId, newName) ==
  /\ rename_session_route(oldSessionId, newName)
  /\ client' = [client EXCEPT
       !.currentSessionId =
          IF response'.status = 200 /\ client.currentSessionId = oldSessionId
          THEN response'.new_session_id ELSE @,
       !.sessions = fetchAndRenderSessions(chat_sessions'),
       !.action = "rename"]
  /\ UNCHANGED threads

(* Mutation: deleting the current session leaves currentSessionId set.     *)
deleteSession_KeepsCurrent(sessionId) ==
  /\ delete_session_route(sessionId)
  /\ client' = IF response'.status = 200
               THEN [client EXCEPT
                       !.sessions = fetchAndRenderSessions(chat_sessions'),
                       !.action = "delete"]
               ELSE [client EXCEPT !.action = "delete"]
  /\ UNCHANGED threads

deleteSession(sessionId) ==
  /\ delete_session_route(sessionId)
  /\ client' = IF response'.status = 200
               THEN [currentSessionId |-> IF client.currentSessionId = sessionId
                                          THEN None ELSE client.currentSessionId,
                     sessionHistory |-> IF client.currentSessionId = sessionId
                                        THEN <<>> ELSE client.sessionHistory,
                     sessions |-> fetchAndRenderSessions(chat_sessions'),
                     action |-> "delete"]
               ELSE [client EXCEPT !.action = "delete"]
  /\ UNCHANGED threads

startNewSession ==
  /\ client' = [client EXCEPT !.sessionHistory = <<>>, !.currentSessionId = None,
                              !.action = "new"]
  /\ UNCHANGED <<chat_sessions, session_counter, api_key, request, response, calls,
                 threads>>

(* Line 804: an input that is empty after trim() is not sent.              *)
ClientMessages == {<<"h">>}

(* The completion call is taken to succeed here: when it raises, only the  *)
(* text of the reply differs (lines 63-65), not the session id.            *)
ClientSend ==
  \E message \in ClientMessages :
       /\ Len(client.sessionHistory) < 2 * MaxTurns
       /\ sendMessage(message)
       /\ ~calls'.raised

ClientLoad == \E sessionId \in RenderedIds : loadSession(sessionId)

(* Lines 945-949: an empty or unchanged name is not sent.                  *)
ClientRename ==
  \E oldSessionId \in RenderedIds, newName \in NewNames \ {None} :
       /\ newName # <<>>
       /\ newName # oldSessionId
       /\ finalizeRename(oldSessionId, newName)

ClientDelete == \E sessionId \in RenderedIds : deleteSession(sessionId)

ClientNewChat == startNewSession

ClientNext == ClientSend \/ ClientLoad \/ ClientRename \/ ClientDelete \/ ClientNewChat

ClientSpec == Init /\ [][ClientNext]_vars

(* ---------------------------- properties ------------------------------ *)

(* C1: a chat request with a non-empty message and input history h returns *)
(* fullHistory = h, then the user message, then the assistant reply: its   *)
(* length is Len(h) + 2, h is its prefix, the same list is what the store  *)
(* holds under the returned id, and the persona message prepended for the  *)
(* upstream call occurs in it exactly as often as it occurs in h.          *)
C1_HistoryExtendedByTwo ==
  (request.route = "chat" /\ response.status = 200) =>
    LET h == request.history
        full == response.fullHistory
    IN /\ Len(full) = Len(h) + 2
       /\ SubSeq(full, 1, Len(h)) = h
       /\ full[Len(h) + 1] = [role |-> "user", content |-> request.message]
       /\ full[Len(h) + 2] = [role |-> "assistant", content |-> response.response]
       /\ Cardinality({i \in 1..Len(full) : full[i] = custom_system_instruction})
            = Cardinality({i \in 1..Len(h) : h[i] = custom_system_instruction})
       /\ \E i \in 1..Len(chat_sessions) :
            /\ chat_sessions[i].key = response.sessionId
            /\ chat_sessions[i].value = h \o <<full[Len(h) + 1], full[Len(h) + 2]>>
       /\ calls.completion = 1 =>
            calls.sent = <<custom_system_instruction>> \o h \o <<full[Len(h) + 1]>>

C1_Witness ==
  /\ request.route = "chat"
  /\ response.status = 200
  /\ request.history # <<>>
  /\ calls.completion = 1
  /\ Len(calls.sent) = Len(response.fullHistory)
  /\ calls.sent[1] = custom_system_instruction

(* C2: a chat handled as a new session (sessionId missing or not a key of  *)
(* the store) stores the history under a key that was not a key before the *)
(* request, and so adds exactly one session.                               *)
C2_NewSessionKeyIsFresh ==
  [][(/\ request'.route = "chat"
      /\ response'.status = 200
      /\ \/ request'.sessionId = None
         \/ \A i \in 1..Len(chat_sessions) :
              chat_sessions[i].key # request'.sessionId)
     => /\ \A i \in 1..Len(chat_sessions) :
             chat_sessions[i].key # response'.sessionId
        /\ Len(chat_sessions') = Len(chat_sessions) + 1]_vars

(* C3: for every store the program reaches, the name uniqueness resolution *)
(* produces is not the key of another session: for a title it is absent    *)
(* from the store, for a rename it is absent or the old session id itself. *)
C3_UniqueNamesNeverCollide ==
  /\ \A title_response \in TitleResponses :
       \A i \in 1..Len(chat_sessions) :
         chat_sessions[i].key # UniqueTitleName(title_response, chat_sessions)
  /\ \A old_session_id \in PathIds :
       \A new_name \in NewNames \ {None} :
         RenameSlug[new_name] # <<>> =>
           \A i \in 1..Len(chat_sessions) :
             \/ chat_sessions[i].key #
                  UniqueRenameName(RenameSlug[new_name], old_session_id,
                                   chat_sessions)
             \/ chat_sessions[i].key = old_session_id

C3_Witness ==
  /\ request.route = "chat"
  /\ response.status = 200
  /\ calls.title = 1
  /\ response.sessionId = NewChat \o <<"-", "1">>
  /\ \E i \in 1..Len(chat_sessions) : chat_sessions[i].key = NewChat

(* C4: a rename that resolves to a name other than the old id moves the    *)
(* history in one step: the old key is gone, the new key (not a key        *)
(* before) holds exactly what the old key held, every other session is     *)
(* unchanged and the number of sessions is the same.                       *)
C4_RenameMovesHistory ==
  [][(/\ request'.route = "rename_session"
      /\ response'.status = 200
      /\ response'.new_session_id # request'.old_session_id)
     => LET old == request'.old_session_id
            new == response'.new_session_id
        IN /\ \E i \in 1..Len(chat_sessions) : chat_sessions[i].key = old
           /\ \A i \in 1..Len(chat_sessions) : chat_sessions[i].key # new
           /\ \A j \in 1..Len(chat_sessions') : chat_sessions'[j].key # old
           /\ \A i \in 1..Len(chat_sessions) :
                \E j \in 1..Len(chat_sessions') :
                  /\ chat_sessions'[j].value = chat_sessions[i].value
                  /\ chat_sessions'[j].key =
                       IF chat_sessions[i].key = old THEN new
                       ELSE chat_sessions[i].key
           /\ Len(chat_sessions') = Len(chat_sessions)
           /\ session_counter' = session_counter]_vars

C4_Witness ==
  /\ request.route = "rename_session"
  /\ response.status = 200
  /\ response.new_session_id # request.old_session_id
  /\ Len(chat_sessions) = 2
  /\ chat_sessions[2].key = response.new_session_id

(* C5: renaming a session to a name whose sanitized form is its current id *)
(* answers with that id and changes neither the store nor the counter.     *)
C5_RenameToSameNameIsNoOp ==
  [][(/\ request'.route = "rename_session"
      /\ request'.new_name \notin {None, <<>>}
      /\ SanitizeRename(request'.new_name) = request'.old_session_id)
     => /\ response'.status = 200
        /\ response'.new_session_id = request'.old_session_id
        /\ chat_sessions' = chat_sessions
        /\ session_counter' = session_counter]_vars

C5_Witness ==
  /\ request.route = "rename_session"
  /\ request.new_name \notin {None, <<>>}
  /\ SanitizeRename(request.new_name) = request.old_session_id
  /\ \E i \in 1..Len(chat_sessions) : chat_sessions[i].key = request.old_session_id
  /\ Len(chat_sessions) = 2

(* C6: a rename whose old session id is not a key of the store answers 404 *)
(* and leaves the store unchanged, for every new name that survives        *)
(* sanitization.                                                           *)
C6_RenameUnknownIs404 ==
  [][(/\ request'.route = "rename_session"
      /\ \A i \in 1..Len(chat_sessions) :
           chat_sessions[i].key # request'.old_session_id
      /\ request'.new_name \notin {None, <<>>}
      /\ SanitizeRename(request'.new_name) # <<>>)
     => /\ response'.status = 404
        /\ chat_sessions' = chat_sessions]_vars

(* C7: deleting an id that is not in the store answers 404 and changes     *)
(* nothing; deleting an existing id removes exactly that entry.  While the *)
(* key stays absent a listing omits it and a load or a delete of it        *)
(* answers 404, and only a chat or a rename can bring the key back.        *)
C7_DeleteRemovesExactlyTheKey ==
  [][/\ request'.route = "delete_session" =>
          LET id == request'.session_id
              present == \E i \in 1..Len(chat_sessions) : chat_sessions[i].key = id
          IN /\ response'.status = IF present THEN 200 ELSE 404
             /\ \A j \in 1..Len(chat_sessions') : chat_sessions'[j].key # id
             /\ \A i \in 1..Len(chat_sessions) :
                  chat_sessions[i].key # id =>
                    \E j \in 1..Len(chat_sessions') :
                      chat_sessions'[j] = chat_sessions[i]
             /\ Len(chat_sessions') =
                  IF present THEN Len(chat_sessions) - 1 ELSE Len(chat_sessions)
     /\ request'.route = "get_sessions" =>
          /\ Len(response'.sessions) = Len(chat_sessions)
          /\ \A i \in 1..Len(chat_sessions) :
               response'.sessions[i] = chat_sessions[i].key
     /\ (/\ request'.route = "load_session"
         /\ \A i \in 1..Len(chat_sessions) :
              chat_sessions[i].key # request'.session_id)
          => response'.status = 404
     /\ \A j \in 1..Len(chat_sessions') :
          (\A i \in 1..Len(chat_sessions) :
             chat_sessions[i].key # chat_sessions'[j].key)
            => request'.route \in {"chat", "rename_session"}]_vars

C7_Witness ==
  /\ request.route = "delete_session"
  /\ response.status = 200
  /\ Len(chat_sessions) = 1
  /\ chat_sessions[1].key # request.session_id

(* C8: a load answers with the stored history exactly when the id is a key *)
(* of the store and with 404 otherwise; the history it returns is never    *)
(* empty.                                                                  *)
C8_LoadFoundIffKey ==
  request.route = "load_session" =>
    IF \E i \in 1..Len(chat_sessions) : chat_sessions[i].key = request.session_id
    THEN /\ response.status = 200
         /\ response.history # <<>>
         /\ \E i \in 1..Len(chat_sessions) :
              /\ chat_sessions[i].key = request.session_id
              /\ chat_sessions[i].value = response.history
    ELSE response.status = 404

C8_Witness ==
  /\ request.route = "load_session"
  /\ response.status = 200
  /\ Len(chat_sessions) = 2
  /\ chat_sessions[2].key = request.session_id

(* C9: a successful chat stores, under the returned sessionId, exactly the *)
(* returned fullHistory, which is built from the request's history and not *)
(* from what the key held before; every other key keeps its history.       *)
C9_ChatOverwritesResolvedKey ==
  [][(request'.route = "chat" /\ response'.status = 200)
     => LET sid == response'.sessionId
        IN /\ response'.fullHistory =
                request'.history
                  \o <<[role |-> "user", content |-> request'.message],
                       [role |-> "assistant", content |-> response'.response]>>
           /\ \E j \in 1..Len(chat_sessions') :
                /\ chat_sessions'[j].key = sid
                /\ chat_sessions'[j].value = response'.fullHistory
           /\ \A i \in 1..Len(chat_sessions) :
                chat_sessions[i].key # sid =>
                  \E j \in 1..Len(chat_sessions') :
                    chat_sessions'[j] = chat_sessions[i]
           /\ \A j \in 1..Len(chat_sessions') :
                \/ chat_sessions'[j].key = sid
                \/ \E i \in 1..Len(chat_sessions) :
                     chat_sessions[i].key = chat_sessions'[j].key]_vars

C9_Witness ==
  /\ request.route = "chat"
  /\ response.status = 200
  /\ api_key
  /\ request.history = <<>>
  /\ calls.title = 0
  /\ request.sessionId = response.sessionId
  /\ Len(chat_sessions) = 2

(* C10: a chat request whose message is missing or empty is answered 400   *)
(* and has no effect: store and counter are unchanged and neither the      *)
(* completion call nor the title call is made.                             *)
C10_EmptyMessageRejected ==
  [][(request'.route = "chat" /\ request'.message \in {None, <<>>})
     => /\ response'.status = 400
        /\ chat_sessions' = chat_sessions
        /\ session_counter' = session_counter
        /\ calls'.completion = 0
        /\ calls'.title = 0
        /\ calls'.sent = <<>>]_vars

C10_Witness ==
  /\ request.route = "chat"
  /\ request.message = <<>>
  /\ response.status = 400
  /\ Len(chat_sessions) > 0

(* C11: sanitizing is idempotent: the rename sanitization of any text x    *)
(* (lowercase, blank runs to one hyphen, keep letters, digits and hyphens, *)
(* trim hyphens at both ends) is left as it is by the same sanitization,   *)
(* sanitize(sanitize(x)) = sanitize(x).                                    *)
C11_SanitizeIdempotent ==
  response.route = "sanitize" =>
    /\ SanitizeRename(response.sanitized_name) = response.sanitized_name
    /\ SanitizeTitle(response.base_name) = response.base_name

(* "-A 1-" becomes "a-1": every step of the sanitization has changed the   *)
(* text, and sanitizing "a-1" again is what the claim is about.            *)
C11_Witness ==
  /\ response.route = "sanitize"
  /\ Len(request.text) = MaxLen
  /\ response.sanitized_name # <<>>
  /\ response.sanitized_name # request.text
  /\ \E i \in 1..Len(response.sanitized_name) : response.sanitized_name[i] = "-"

(* C12: the title derivation and the rename apply the same sanitization:   *)
(* for every text both make the same slug, and that slug keeps every       *)
(* letter and every digit of the lowercased, hyphen-joined text.           *)
C12_SameSanitization ==
  response.route = "sanitize" =>
    LET joined == join(<<"-">>, split(lower(request.text)))
        IsKept(x) == isalpha(x) \/ isdigit(x)
    IN /\ response.base_name = response.sanitized_name
       /\ SelectSeq(response.base_name, IsKept) = SelectSeq(joined, IsKept)
       /\ SelectSeq(response.sanitized_name, IsKept) = SelectSeq(joined, IsKept)

(* C13 as stated: a proposed name that sanitizes to the empty string is    *)
(* replaced by a placeholder name that is then made unique, and nothing    *)
(* fails, both for a title in the chat endpoint and for the new name of a  *)
(* rename of a stored session.                                             *)
C13_EmptyNameGetsPlaceholder ==
  [][/\ (/\ request'.route = "chat"
          /\ calls'.title_response \in TitleResponses
          /\ TitleSlug[calls'.title_response] = <<>>) =>
            /\ response'.status = 200
            /\ SubSeq(response'.sessionId, 1, Len(NewChat)) = NewChat
            /\ Has(chat_sessions', response'.sessionId)
     /\ (/\ request'.route = "rename_session"
          /\ ~Falsy(request'.new_name)
          /\ RenameSlug[request'.new_name] = <<>>
          /\ Has(chat_sessions, request'.old_session_id)) =>
            /\ response'.status = 200
            /\ SubSeq(response'.new_session_id, 1, Len(NewChat)) = NewChat
            /\ Has(chat_sessions', response'.new_session_id)]_vars

(* C13, amended: a title that sanitizes to the empty string is replaced by *)
(* the placeholder "new-chat", made unique by the smallest free suffix,    *)
(* and the chat succeeds under that new key; a rename whose new name       *)
(* sanitizes to the empty string is answered 400 "Invalid new name after   *)
(* sanitization" and leaves the store as it was.                           *)
C13_PlaceholderInChatRejectInRename ==
  [][/\ (/\ request'.route = "chat"
          /\ calls'.title_response \in TitleResponses
          /\ TitleSlug[calls'.title_response] = <<>>) =>
            /\ response'.status = 200
            /\ ~ \E i \in 1..Len(chat_sessions) :
                   chat_sessions[i].key = response'.sessionId
            /\ \E i \in 1..Len(chat_sessions') :
                   chat_sessions'[i].key = response'.sessionId
            /\ \/ response'.sessionId = NewChat
               \/ \E k \in 1..Len(chat_sessions) :
                    /\ response'.sessionId = NewChat \o <<"-">> \o str(k)
                    /\ \E i \in 1..Len(chat_sessions) : chat_sessions[i].key = NewChat
     /\ (/\ request'.route = "rename_session"
          /\ ~Falsy(request'.new_name)
          /\ RenameSlug[request'.new_name] = <<>>) =>
            /\ response'.status = 400
            /\ response'.error = "Invalid new name after sanitization"
            /\ chat_sessions' = chat_sessions]_vars

(* The new name "!" for a stored session has been refused, in a store that *)
(* holds the suffixed placeholder key new-chat-1.                          *)
C13_Witness ==
  /\ request.route = "rename_session"
  /\ request.new_name = <<"!">>
  /\ response.status = 400
  /\ \E i \in 1..Len(chat_sessions) : chat_sessions[i].key = request.old_session_id
  /\ \E i \in 1..Len(chat_sessions) : chat_sessions[i].key = NewChat \o <<"-", "1">>

(* C14: the uniqueness resolution is linear probing that ends within as    *)
(* many probes as the store has keys: it returns the base name when the    *)
(* base is free, and otherwise base-k for the smallest k >= 1 whose        *)
(* base-k is free, every suffix below k being taken.  Free means absent    *)
(* from the store and, in a rename, also the old session id itself.        *)
C14_LinearProbing ==
  LET keys == {chat_sessions[i].key : i \in 1..Len(chat_sessions)}
      Suffixed(base, k) == base \o <<"-">> \o str(k)
  IN /\ response.route = "unique_title" =>
          LET sanitized == TitleSlug[request.title_response]
              base == IF sanitized = <<>> THEN NewChat ELSE sanitized
              unique_name == response.unique_name
          IN IF base \notin keys
             THEN unique_name = base
             ELSE \E k \in 1..Len(chat_sessions) :
                    /\ unique_name = Suffixed(base, k)
                    /\ unique_name \notin keys
                    /\ \A j \in 1..(k - 1) : Suffixed(base, j) \in keys
     /\ response.route = "unique_rename" =>
          LET base == response.sanitized_name
              unique_name == response.unique_name
              Free(name) == name \notin keys \/ name = request.old_session_id
          IN IF Free(base)
             THEN unique_name = base
             ELSE \E k \in 1..Len(chat_sessions) :
                    /\ unique_name = Suffixed(base, k)
                    /\ Free(unique_name)
                    /\ \A j \in 1..(k - 1) : ~Free(Suffixed(base, j))

(* A rename has resolved to new-chat-2 past the taken new-chat and         *)
(* new-chat-1, from an old id that is neither.                             *)
C14_Witness ==
  /\ response.route = "unique_rename"
  /\ request.old_session_id = SessionN(1)
  /\ response.unique_name = NewChat \o <<"-", "2">>
  /\ \E i \in 1..Len(chat_sessions) : chat_sessions[i].key = NewChat
  /\ \E i \in 1..Len(chat_sessions) : chat_sessions[i].key = NewChat \o <<"-", "1">>

(* C15: every key of the store is a sanitized slug (lowercase letters,     *)
(* digits and hyphens, not empty, no hyphen at either end) or a counter    *)
(* fallback "session_N"; no request creates a key of another form.         *)
C15_KeysAreSlugsOrFallbacks ==
  \A i \in 1..Len(chat_sessions) :
    LET key == chat_sessions[i].key
        prefix == <<"s","e","s","s","i","o","n","_">>
    IN \/ /\ key # <<>>
          /\ \A j \in 1..Len(key) : key[j] \in LowerLetters \cup Digits \cup {"-"}
          /\ key[1] # "-"
          /\ key[Len(key)] # "-"
       \/ /\ Len(key) > Len(prefix)
          /\ SubSeq(key, 1, Len(prefix)) = prefix
          /\ \A j \in (Len(prefix) + 1)..Len(key) : key[j] \in Digits

(* C16: in a chat that is answered 200 the title call is made, once, if    *)
(* and only if the sessionId is missing or not a key of the store, the     *)
(* input history is empty and an API key is configured.  A chat whose      *)
(* sessionId is a key of the store makes no title call, is answered with   *)
(* that same id, and leaves the keys of the store, their order and the     *)
(* session counter as they were.                                           *)
C16_TitleOnlyOnFirstTurnOfNewSession ==
  [][(request'.route = "chat" /\ response'.status = 200) =>
       LET sid == request'.sessionId
           known == \E i \in 1..Len(chat_sessions) : chat_sessions[i].key = sid
       IN /\ calls'.title \in {0, 1}
          /\ calls'.title = 1 <=>
                /\ sid \in {None, <<>>} \/ ~known
                /\ request'.history = <<>>
                /\ api_key
          /\ known =>
                /\ calls'.title = 0
                /\ response'.sessionId = sid
                /\ Len(chat_sessions') = Len(chat_sessions)
                /\ \A i \in 1..Len(chat_sessions) :
                      chat_sessions'[i].key = chat_sessions[i].key
                /\ session_counter' = session_counter]_vars

(* A first turn that names a session the store does not know ("Z!") has    *)
(* had its title requested, next to a session stored before.               *)
C16_Witness ==
  /\ request.route = "chat"
  /\ response.status = 200
  /\ request.sessionId = <<"Z", "!">>
  /\ request.history = <<>>
  /\ calls.title = 1
  /\ Len(chat_sessions) = 2

(* C17: on the first turn of a new session (sessionId missing or not a key *)
(* of the store, input history empty), when the title call raises or no    *)
(* API key is configured, the chat is still answered 200: the session      *)
(* counter grows by exactly one, the returned id is "session_N" for the    *)
(* new counter value N, the two-message history is stored under that id,   *)
(* and the title call was made at most once (never without an API key).    *)
C17_TitleFailureFallsBackToCounter ==
  [][(/\ request'.route = "chat"
      /\ ~(request'.message \in {None, <<>>})
      /\ request'.history = <<>>
      /\ \/ request'.sessionId \in {None, <<>>}
         \/ ~ \E i \in 1..Len(chat_sessions) :
                chat_sessions[i].key = request'.sessionId
      /\ ~api_key \/ calls'.title_response = Raise) =>
       /\ response'.status = 200
       /\ session_counter' = session_counter + 1
       /\ response'.sessionId = SessionN(session_counter')
       /\ Len(response'.fullHistory) = 2
       /\ \E i \in 1..Len(chat_sessions') :
             /\ chat_sessions'[i].key = response'.sessionId
             /\ chat_sessions'[i].value = response'.fullHistory
       /\ calls'.title = (IF api_key THEN 1 ELSE 0)]_vars

(* The title call has raised for the second time: the counter went from 1   *)
(* to 2 and the session is stored as session_2.                            *)
C17_Witness ==
  /\ request.route = "chat"
  /\ api_key
  /\ calls.title = 1
  /\ calls.title_response = Raise
  /\ session_counter = 2
  /\ response.sessionId = SessionN(2)
  /\ \E i \in 1..Len(chat_sessions) : chat_sessions[i].key = SessionN(2)

C19_ListingInInsertionOrder ==
  [][LET KeySeq(d) == [i \in 1..Len(d) |-> d[i].key]
         Without(id) == LET Other(k) == k # id
                        IN SelectSeq(KeySeq(chat_sessions), Other)
         known == \E i \in 1..Len(chat_sessions) :
                    chat_sessions[i].key = request'.sessionId
     IN /\ request'.route = "get_sessions" =>
             /\ response'.sessions = KeySeq(chat_sessions')
             /\ \A i, j \in 1..Len(response'.sessions) :
                   response'.sessions[i] = response'.sessions[j] => i = j
        /\ (request'.route = "chat" /\ response'.status = 200) =>
             IF known
             THEN KeySeq(chat_sessions') = KeySeq(chat_sessions)
             ELSE /\ KeySeq(chat_sessions')[Len(chat_sessions')] = response'.sessionId
                  /\ SubSeq(KeySeq(chat_sessions'), 1, Len(chat_sessions') - 1)
                       = Without(response'.sessionId)
        /\ (/\ request'.route = "rename_session"
             /\ response'.status = 200
             /\ response'.new_session_id # request'.old_session_id) =>
             KeySeq(chat_sessions')
               = Append(Without(request'.old_session_id), response'.new_session_id)
        /\ (request'.route = "delete_session" /\ response'.status = 200) =>
             KeySeq(chat_sessions') = Without(request'.session_id)]_vars

(* C20: every history in the store has at least two messages, and its     *)
(* last two are a user message followed by an assistant message; no stored *)
(* history is empty, whatever history the client sent.                     *)
C20_StoredHistoryEndsWithExchange ==
  \A i \in 1..Len(chat_sessions) :
    LET h == chat_sessions[i].value
    IN /\ Len(h) >= 2
       /\ h[Len(h) - 1].role = "user"
       /\ h[Len(h)].role = "assistant"

(* A session stored from a client-supplied history has been renamed: its   *)
(* history of more than two messages sits under the new key.               *)
C20_Witness ==
  /\ request.route = "rename_session"
  /\ response.status = 200
  /\ response.new_session_id # request.old_session_id
  /\ Len(chat_sessions) = 2
  /\ \E i \in 1..Len(chat_sessions) :
        /\ chat_sessions[i].key = response.new_session_id
        /\ Len(chat_sessions[i].value) > 2
        /\ chat_sessions[i].value[1].role = "system"

(* C21: the session counter never decreases.  A chat answered 200 raises   *)
(* it by one exactly when the server assigns a counter-based id (the       *)
(* sessionId is missing, or it is unknown on a first turn, and no title    *)
(* was obtained), and that id is "session_N" for the new value N, which    *)
(* differs from "session_n" for every value n the counter has had; every   *)
(* other request, a rejected chat included, leaves the counter unchanged.  *)
C21_CounterNeverDecreases ==
  [][/\ session_counter' \in {session_counter, session_counter + 1}
     /\ (request'.route # "chat" \/ response'.status # 200) =>
           session_counter' = session_counter
     /\ (request'.route = "chat" /\ response'.status = 200) =>
           LET sid == request'.sessionId
               known == \E i \in 1..Len(chat_sessions) : chat_sessions[i].key = sid
               named == sid \in {None, <<>>} \/ (~known /\ request'.history = <<>>)
               assigned == named /\ calls'.title_response \notin TitleResponses
           IN /\ session_counter' = session_counter + 1 <=> assigned
              /\ assigned =>
                   /\ response'.sessionId
                        = <<"s","e","s","s","i","o","n","_">> \o str(session_counter')
                   /\ \A n \in 0..session_counter :
                        response'.sessionId # <<"s","e","s","s","i","o","n","_">> \o str(n)]_vars

(* session_2 has been assigned after the session that held session_1 was   *)
(* deleted: the store holds session_2 alone.                               *)
C21_Witness ==
  /\ request.route = "chat"
  /\ response.status = 200
  /\ request.sessionId = None
  /\ session_counter = 2
  /\ response.sessionId = SessionN(2)
  /\ Len(chat_sessions) = 1
  /\ chat_sessions[1].key = SessionN(2)

(* C22: two chat requests for new sessions that are handled at the same    *)
(* time, their statements interleaved in any order, are never assigned the *)
(* same session key: once both have stored, their ids differ and the store *)
(* holds each request's history under its id.                              *)
C22_ConcurrentNewSessionsKeepBoth ==
  (\A t \in Threads : threads[t].pc = "done") =>
    /\ threads[1].current_session_id # threads[2].current_session_id
    /\ \A t \in Threads :
         \E i \in 1..Len(chat_sessions) :
           /\ chat_sessions[i].key = threads[t].current_session_id
           /\ chat_sessions[i].value = threads[t].updated_history

(* C23: for one page whose actions run one after the other, the page's     *)
(* currentSessionId is null or a key of the server's store after every     *)
(* action: a successful send sets it to the id the server resolved, a      *)
(* successful load to the loaded id, a successful rename of the current    *)
(* session to the new id, a successful delete of the current session and   *)
(* the new-chat button to null; nothing else changes it.                   *)
C23_CurrentSessionIsNullOrStored ==
  [][LET current == client.currentSessionId
         ok == response'.status = 200
     IN /\ \/ client'.currentSessionId = None
           \/ \E i \in 1..Len(chat_sessions') :
                chat_sessions'[i].key = client'.currentSessionId
        /\ client'.currentSessionId =
             CASE client'.action = "send" /\ ok -> response'.sessionId
               [] client'.action = "load" /\ ok -> request'.session_id
               [] client'.action = "rename" /\ ok
                    /\ current = request'.old_session_id -> response'.new_session_id
               [] client'.action = "delete" /\ ok
                    /\ current = request'.session_id -> None
               [] client'.action = "new" -> None
               [] OTHER -> current]_vars

(* The current session has been renamed to a name that was taken: the page *)
(* follows it to the suffixed key, which the store holds.                  *)
C23_Witness ==
  /\ client.action = "rename"
  /\ response.status = 200
  /\ client.currentSessionId = response.new_session_id
  /\ client.currentSessionId = NewChat \o <<"-", "1">>
  /\ client.currentSessionId # request.old_session_id
  /\ \E i \in 1..Len(chat_sessions) : chat_sessions[i].key = client.currentSessionId

====
